---- MODULE Spec2Model ----
(***************************************************************************)
(* A model of CSIKit/csitools.py: get_CSI, get_total_rss, get_snr and     *)
(* scale_csi_entry.                                                        *)
(*                                                                         *)
(* Numbers.  The program computes in floating point with decibel and      *)
(* linear quantities.  The model computes the same expressions exactly,   *)
(* over the reals of the form (n/d) * 10^(e/20):                          *)
(*   Q      [n, d, e]          the real (n/d) * 10^(e/20), in lowest      *)
(*                             terms, no factor 10 left in n or d;        *)
(*   Lin    [fin, eps]         the real fin + eps * EPS, where EPS is the *)
(*                             linear value dbinv(db(0, "pow")) of the    *)
(*                             decibel utility's zero-input sentinel;     *)
(*   dB     [n, d, h, s]       10*log10(n/d) + h/2 + s * db(0, "pow");    *)
(*   Ratio  [num, den, nan]    the quotient of two Lin;                   *)
(*   Mag    [sq]               the non-negative real sqrt(sq).            *)
(* Floating-point rounding is not modelled.                               *)
(***************************************************************************)
EXTENDS Integers, Sequences, FiniteSets, TLC

VARIABLES
    entry,           \* the frame (a dict) handed to the frame-level functions
    res,             \* the outcome of the last frame-level call
    trace,           \* the list of frames handed to get_CSI
    pc,              \* get_CSI: "idle", "loop", "done", "failed"
    args,            \* get_CSI: the arguments as the caller passed them
    antenna_stream,  \* get_CSI: the parameter, which line 19 may reassign
    no_frames,       \* get_CSI: local
    no_subcarriers,  \* get_CSI: local
    x,               \* get_CSI: frame loop index
    y,               \* get_CSI: subcarrier loop index
    csi,             \* get_CSI: the local result matrix
    ret              \* get_CSI: what the call handed to its caller

vars == <<entry, res, trace, pc, args, antenna_stream, no_frames,
          no_subcarriers, x, y, csi, ret>>

(***************************************************************************)
(* Bounds of the model.                                                    *)
(***************************************************************************)
MaxRssiStep == 1
MaxSub == 2
MaxFrames == 2

(***************************************************************************)
(* Exact arithmetic on Q = (n/d) * 10^(e/20).                             *)
(***************************************************************************)
RECURSIVE Gcd(_, _)
Gcd(a, b) == IF b = 0 THEN a ELSE Gcd(b, a % b)

RECURSIVE Pow10(_)
Pow10(k) == IF k <= 0 THEN 1 ELSE 10 * Pow10(k - 1)

RECURSIVE QStrip(_, _, _)
QStrip(n, d, e) ==
    IF n % 10 = 0 THEN QStrip(n \div 10, d, e + 20)
    ELSE IF d % 10 = 0 THEN QStrip(n, d \div 10, e - 20)
    ELSE [n |-> n, d |-> d, e |-> e]

QZero == [n |-> 0, d |-> 1, e |-> 0]

QNorm(n, d, e) ==
    IF n = 0 THEN QZero
    ELSE LET g == Gcd(n, d) IN QStrip(n \div g, d \div g, e)

QInt(k) == QNorm(k, 1, 0)
QOne == QInt(1)
QMul(a, b) == QNorm(a.n * b.n, a.d * b.d, a.e + b.e)
QDiv(a, b) == QNorm(a.n * b.d, a.d * b.n, a.e - b.e)

\* a + b, for a and b whose exponents differ by whole decades.
QAdd(a, b) ==
    IF a.n = 0 THEN b
    ELSE IF b.n = 0 THEN a
    ELSE LET lo == IF a.e < b.e THEN a.e ELSE b.e
             ka == (a.e - lo) \div 20
             kb == (b.e - lo) \div 20
         IN QNorm(a.n * Pow10(ka) * b.d + b.n * Pow10(kb) * a.d, a.d * b.d, lo)

\* The condition under which QAdd(a, b) is the exact sum.
Aligned(a, b) == a.n = 0 \/ b.n = 0 \/ (a.e - b.e) % 20 = 0

(***************************************************************************)
(* Lin = fin + eps * EPS.                                                  *)
(***************************************************************************)
LinOf(q) == [fin |-> q, eps |-> QZero]
LinZero == LinOf(QZero)
LinOne == LinOf(QOne)
LinAdd(a, b) == [fin |-> QAdd(a.fin, b.fin), eps |-> QAdd(a.eps, b.eps)]
LinMulQ(a, q) == [fin |-> QMul(a.fin, q), eps |-> QMul(a.eps, q)]
LinDivQ(a, q) == [fin |-> QDiv(a.fin, q), eps |-> QDiv(a.eps, q)]
\* EPS > 0: the sentinel db(0, "pow") is a finite decibel value.
LinPos(a) == a.fin.n > 0 \/ a.eps.n > 0

(***************************************************************************)
(* Ratio = num / den of two Lin, in a normal form: a constant den is       *)
(* divided out, otherwise num's leading coefficient is.                    *)
(***************************************************************************)
RatioNaN == [num |-> LinZero, den |-> LinZero, nan |-> TRUE]

Ratio(num, den) ==
    IF den = LinZero THEN RatioNaN
    ELSE IF num = LinZero THEN [num |-> LinZero, den |-> LinOne, nan |-> FALSE]
    ELSE IF den.eps = QZero
         THEN [num |-> LinDivQ(num, den.fin), den |-> LinOne, nan |-> FALSE]
    ELSE LET lead == IF num.fin.n # 0 THEN num.fin ELSE num.eps
         IN [num |-> LinDivQ(num, lead), den |-> LinDivQ(den, lead), nan |-> FALSE]

RatioMulQ(r, q) == IF r.nan THEN r ELSE Ratio(LinMulQ(r.num, q), r.den)

(***************************************************************************)
(* Decibel values and the decibel utility (CSIKit/matlab.py, which is not  *)
(* among the sources: db and dbinv follow the specification's section 2    *)
(* and 4.1: db(x, "pow") = 10*log10(x), db(x) = 20*log10(|x|), dbinv(x) =  *)
(* 10^(x/10), and db of 0 is a sentinel decibel value, not an error).      *)
(***************************************************************************)
DbInt(v) == [n |-> 1, d |-> 1, h |-> 2 * v, s |-> 0]
DbHalves(h) == [n |-> 1, d |-> 1, h |-> h, s |-> 0]
DbSub(v, k) == [v EXCEPT !.h = @ - 2 * k]
DbAdd(v, k) == [v EXCEPT !.h = @ + 2 * k]

dbinv(v) ==
    LET q == QNorm(v.n, v.d, v.h)
    IN IF v.s = 0 THEN [fin |-> q, eps |-> QZero] ELSE [fin |-> QZero, eps |-> q]

DbPow(p) ==
    IF p = LinZero THEN [n |-> 1, d |-> 1, h |-> 0, s |-> 1]
    ELSE IF p.eps = QZero THEN [n |-> p.fin.n, d |-> p.fin.d, h |-> p.fin.e, s |-> 0]
    ELSE [n |-> p.eps.n, d |-> p.eps.d, h |-> p.eps.e, s |-> 1]

\* db(X, U): X is a Lin when U = "pow", a Mag otherwise (the default unit
\* is a voltage: the value is squared before the logarithm).
db(X, U) == IF U = "pow" THEN DbPow(X) ELSE DbPow(X.sq.num)

(***************************************************************************)
(* get_total_rss                                                           *)
(***************************************************************************)
get_total_rss_nocheck(rssi_a, rssi_b, rssi_c, agc) ==
    LET m1 == IF rssi_a # 0 THEN LinAdd(LinZero, dbinv(DbInt(rssi_a))) ELSE LinZero
        m2 == LinAdd(m1, dbinv(DbInt(rssi_b)))
        m3 == IF rssi_c # 0 THEN LinAdd(m2, dbinv(DbInt(rssi_c))) ELSE m2
    IN DbSub(DbSub(db(m3, "pow"), 44), agc)

get_total_rss(rssi_a, rssi_b, rssi_c, agc) ==
    LET m0 == LinZero
        m1 == IF rssi_a # 0 THEN LinAdd(m0, dbinv(DbInt(rssi_a))) ELSE m0
        m2 == IF rssi_b # 0 THEN LinAdd(m1, dbinv(DbInt(rssi_b))) ELSE m1
        m3 == IF rssi_c # 0 THEN LinAdd(m2, dbinv(DbInt(rssi_c))) ELSE m2
    IN DbSub(DbSub(db(m3, "pow"), 44), agc)

(***************************************************************************)
(* Complex tensors.  A tensor is [shape, data]: shape is numpy's shape     *)
(* tuple and data maps each zero-based index tuple to an element.  A raw   *)
(* element is [re, im]; a scaled element is [re, im, k], the complex       *)
(* number (re + i*im) * sqrt(k) with k a Ratio.                            *)
(***************************************************************************)
Indices(shape) ==
    IF Len(shape) = 1 THEN {<<i>> : i \in 0..(shape[1] - 1)}
    ELSE {<<i, a, b>> : i \in 0..(shape[1] - 1), a \in 0..(shape[2] - 1),
                        b \in 0..(shape[3] - 1)}

CVals == << [re |-> 1, im |-> 0], [re |-> 1, im |-> 1],
            [re |-> 0, im |-> 2], [re |-> -2, im |-> -2] >>

\* The raw tensor of a given shape: its elements differ in magnitude and
\* phase from one subcarrier and one antenna pair to the next.
RawTensor(shape) ==
    [shape |-> shape,
     data |-> [i \in Indices(shape) |->
                 IF Len(shape) = 1 THEN CVals[(i[1] % 4) + 1]
                 ELSE CVals[((i[1] + 2 * i[2] + i[3]) % 4) + 1]]]

RECURSIVE SumOver(_, _)
SumOver(f, S) ==
    IF S = {} THEN 0
    ELSE LET i == CHOOSE j \in S : TRUE IN f[i] + SumOver(f, S \ {i})

\* np.real(np.sum(np.multiply(csi, np.conj(csi))))
csi_pwr_of(t) ==
    SumOver([i \in DOMAIN t.data |-> t.data[i].re * t.data[i].re
                                     + t.data[i].im * t.data[i].im],
            DOMAIN t.data)

\* csi * np.sqrt(k), elementwise.
TensorTimesSqrt(t, k) ==
    [shape |-> t.shape,
     data |-> [i \in DOMAIN t.data |->
                 [re |-> t.data[i].re, im |-> t.data[i].im, k |-> k]]]

(***************************************************************************)
(* get_snr.  A raised exception is [kind |-> "raise", exc, msg]; calls     *)
(* lists the computations the call performed, in order.                    *)
(***************************************************************************)
Raise(exc, msg, calls) ==
    [kind |-> "raise", exc |-> exc, msg |-> msg, val |-> DbInt(0), calls |-> calls]

Return(val, calls) ==
    [kind |-> "ok", exc |-> "", msg |-> "", val |-> val, calls |-> calls]

get_snr_remap(e) ==
    IF ~ ("rssi_a" \in DOMAIN e /\ "rssi_b" \in DOMAIN e
          /\ "rssi_c" \in DOMAIN e /\ "agc" \in DOMAIN e)
    THEN Raise("Exception", "invalid entry rssi or agc is missing", <<>>)
    ELSE IF ~ ("noise" \in DOMAIN e)
    THEN Raise("Exception", "missing noise at entry", <<>>)
    ELSE LET rss_dBm == get_total_rss(e.rssi_a, e.rssi_b, e.rssi_c, e.agc)
             noise_dBm == IF e.noise = -127 THEN -92 ELSE e.noise
         IN Return(DbSub(rss_dBm, noise_dBm), <<"get_total_rss", "subtract">>)

get_snr_latecheck(e) ==
    IF ~ ("rssi_a" \in DOMAIN e /\ "rssi_b" \in DOMAIN e
          /\ "rssi_c" \in DOMAIN e /\ "agc" \in DOMAIN e)
    THEN Raise("Exception", "invalid entry rssi or agc is missing", <<>>)
    ELSE LET rss_dBm == get_total_rss(e.rssi_a, e.rssi_b, e.rssi_c, e.agc)
         IN IF ~ ("noise" \in DOMAIN e)
            THEN Raise("Exception", "missing noise at entry", <<"get_total_rss">>)
            ELSE Return(DbSub(rss_dBm, e.noise), <<"get_total_rss", "subtract">>)

get_snr(e) ==
    IF ~ ("rssi_a" \in DOMAIN e /\ "rssi_b" \in DOMAIN e
          /\ "rssi_c" \in DOMAIN e /\ "agc" \in DOMAIN e)
    THEN Raise("Exception", "invalid entry rssi or agc is missing", <<>>)
    ELSE IF ~ ("noise" \in DOMAIN e)
    THEN Raise("Exception", "missing noise at entry", <<>>)
    ELSE LET rss_dBm == get_total_rss(e.rssi_a, e.rssi_b, e.rssi_c, e.agc)
             noise_dBm == e.noise
             snr_dB == DbSub(rss_dBm, noise_dBm)
         IN Return(snr_dB, <<"get_total_rss", "subtract">>)

(***************************************************************************)
(* scale_csi_entry.  The operator yields the call's locals together with   *)
(* its return value ret.                                                   *)
(***************************************************************************)
\* rssi_pwr = dbinv(get_total_rss(rssi_a, rssi_b, rssi_c, agc))
rssi_pwr_guarded(frame) ==
    IF frame.rssi_a = 0 /\ frame.rssi_b = 0 /\ frame.rssi_c = 0 THEN LinZero
    ELSE dbinv(get_total_rss(frame.rssi_a, frame.rssi_b, frame.rssi_c, frame.agc))

rssi_pwr_of(frame) ==
    dbinv(get_total_rss(frame.rssi_a, frame.rssi_b, frame.rssi_c, frame.agc))

\* noise_db = -92 when noise == -127; thermal_noise_pwr = dbinv(noise_db).
\* np.float(noise_db) is the float of the same value.
thermal_noise_pwr_noremap(noise) ==
    dbinv(DbInt(noise))

thermal_noise_pwr_of(noise) ==
    LET noise_db == IF noise = -127 THEN -92 ELSE noise
    IN dbinv(DbInt(noise_db))

\* quant_error_pwr = scale * (n_rx * n_tx)
quant_error_pwr_rx_only(scale, n_rx, n_tx) ==
    LinMulQ(scale, QInt(n_rx))

quant_error_pwr_of(scale, n_rx, n_tx) ==
    LinMulQ(scale, QInt(n_rx * n_tx))

\* The factor k of ret = csi * sqrt(k) after the n_tx correction.
tx_correction(k, n_tx) ==
    IF n_tx = 2 THEN RatioMulQ(k, QInt(2))
    ELSE IF n_tx = 3 THEN RatioMulQ(k, dbinv(DbHalves(9)).fin)
    ELSE k

scale_csi_entry(frame) ==
    LET csi_pwr == csi_pwr_of(frame.csi)
        rssi_pwr == rssi_pwr_of(frame)
        scale == LinDivQ(rssi_pwr, QNorm(csi_pwr, 30, 0))
        thermal_noise_pwr == thermal_noise_pwr_of(frame.noise)
        quant_error_pwr == quant_error_pwr_of(scale, frame.n_rx, frame.n_tx)
        total_noise_pwr == LinAdd(thermal_noise_pwr, quant_error_pwr)
        k == tx_correction(Ratio(scale, total_noise_pwr), frame.n_tx)
    IN [csi_pwr |-> csi_pwr,
        scale |-> scale,
        thermal_noise_pwr |-> thermal_noise_pwr,
        quant_error_pwr |-> quant_error_pwr,
        total_noise_pwr |-> total_noise_pwr,
        ret |-> TensorTimesSqrt(frame.csi, k)]

(***************************************************************************)
(* get_CSI.  The result matrix is [shape, data]: np.zeros((no_subcarriers, *)
(* no_frames)) with data mapping <<y, x>> to a cell.  A cell is the float  *)
(* 0.0 ("zero"), a decibel value ("db") or an angle ("rad", in units of    *)
(* pi/4).                                                                  *)
(***************************************************************************)
None == -1

ZeroCell == [t |-> "zero", db |-> DbInt(0), rad |-> 0]
DbCell(v) == [t |-> "db", db |-> v, rad |-> 0]
RadCell(a) == [t |-> "rad", db |-> DbInt(0), rad |-> a]

\* np.zeros((rows, cols))
Zeros(rows, cols) ==
    [shape |-> <<rows, cols>>,
     data |-> [i \in {<<r, c>> : r \in 0..(rows - 1), c \in 0..(cols - 1)}
                 |-> ZeroCell]]

NoMatrix == Zeros(0, 0)

\* abs() of a scaled element.
Abs(z) == [sq |-> RatioMulQ(z.k, QInt(z.re * z.re + z.im * z.im))]

\* np.angle() of a scaled element, in units of pi/4, in (-4, 4].
Angle(z) ==
    IF z.k.num = LinZero \/ (z.re = 0 /\ z.im = 0) THEN 0
    ELSE IF z.im = 0 THEN (IF z.re > 0 THEN 0 ELSE 4)
    ELSE IF z.re = 0 THEN (IF z.im > 0 THEN 2 ELSE -2)
    ELSE IF z.re > 0 THEN (IF z.im > 0 THEN 1 ELSE -1)
    ELSE (IF z.im > 0 THEN 3 ELSE -3)

\* Lines 9-21: the locals get_CSI sets up before its loops.
get_CSI_setup_rx(tr, stream) ==
    LET csi_shape == tr[1].csi.shape
        subc == IF Len(csi_shape) = 3 THEN csi_shape[2] ELSE csi_shape[1]
    IN [no_frames |-> Len(tr),
        no_subcarriers |-> subc,
        antenna_stream |-> IF Len(csi_shape) = 3 /\ stream = None THEN 0 ELSE stream,
        csi |-> Zeros(subc, Len(tr))]

get_CSI_setup(tr, stream) ==
    LET csi_shape == tr[1].csi.shape
    IN [no_frames |-> Len(tr),
        no_subcarriers |-> csi_shape[1],
        antenna_stream |-> IF Len(csi_shape) = 3 /\ stream = None THEN 0 ELSE stream,
        csi |-> Zeros(csi_shape[1], Len(tr))]

\* The assignment csi[y][x] = cell.  scaled_entry aliases the trace's own
\* array, csi is the call's fresh matrix: only the latter is written.
Store_into_entry(m, tr, yy, xx, cell) ==
    [kind |-> "store", exc |-> "",
     csi |-> m,
     trace |-> [tr EXCEPT ![xx + 1].scaled_csi.data =
                  [i \in DOMAIN @ |->
                     IF i[1] = yy THEN [re |-> 0, im |-> 0, k |-> @[i].k]
                     ELSE @[i]]]]

Store(m, tr, yy, xx, cell) ==
    IF <<yy, xx>> \in DOMAIN m.data
    THEN [kind |-> "store", exc |-> "",
          csi |-> [m EXCEPT !.data[<<yy, xx>>] = cell], trace |-> tr]
    ELSE [kind |-> "raise", exc |-> "IndexError", csi |-> m, trace |-> tr]

Fail(kind, exc, m, tr) == [kind |-> kind, exc |-> exc, csi |-> m, trace |-> tr]

\* Line 28: scaled_entry[y][antenna_stream][antenna_stream]
amplitude_index_rx(yy, stream) == <<yy, stream, 0>>

amplitude_index(yy, stream) == <<yy, stream, stream>>

\* Lines 24-37: the body of the loops for one cell (x, y).  The outcome is
\* the matrix and the trace after the body, or the return of False, or the
\* exception the body raised.
get_CSI_cell(tr, m, mtr, stream, xx, yy) ==
    LET scaled_entry == tr[xx + 1].scaled_csi
        shp == scaled_entry.shape
    IN IF mtr = "amplitude"
       THEN IF stream # None
            THEN IF Len(shp) = 3 /\ amplitude_index(yy, stream) \in DOMAIN scaled_entry.data
                 THEN Store(m, tr, yy, xx,
                            DbCell(db(Abs(scaled_entry.data[amplitude_index(yy, stream)]), "")))
                 ELSE Fail("raise", "IndexError", m, tr)
            ELSE IF Len(shp) = 1 /\ <<yy>> \in DOMAIN scaled_entry.data
                 THEN Store(m, tr, yy, xx,
                            DbCell(db(Abs(scaled_entry.data[<<yy>>]), "")))
                 ELSE Fail("raise", "IndexError", m, tr)
       ELSE IF mtr = "phasediff"
       THEN IF Len(shp) < 2
            THEN Fail("raise", "IndexError", m, tr)
            ELSE IF shp[2] >= 2
                 THEN IF <<yy, 1, 0>> \in DOMAIN scaled_entry.data
                      THEN Store(m, tr, yy, xx,
                                 RadCell(Angle(scaled_entry.data[<<yy, 1, 0>>])
                                         - Angle(scaled_entry.data[<<yy, 0, 0>>])))
                      ELSE Fail("raise", "IndexError", m, tr)
                 ELSE Fail("False", "", m, tr)
       ELSE [kind |-> "store", exc |-> "", csi |-> m, trace |-> tr]

(***************************************************************************)
(* Inputs.                                                                 *)
(***************************************************************************)
RssiSet == {10 * i : i \in (0 - MaxRssiStep)..MaxRssiStep}
AgcSet == {38, 48}
NoiseSet == {-127, -92, -102}
Required == {"rssi_a", "rssi_b", "rssi_c", "agc", "noise"}

Frame(shape, n_rx, n_tx, a, b, c, agc, noise) ==
    [csi |-> RawTensor(shape), n_rx |-> n_rx, n_tx |-> n_tx,
     rssi_a |-> a, rssi_b |-> b, rssi_c |-> c, agc |-> agc, noise |-> noise]

Without(f, K) == [k \in (DOMAIN f) \ K |-> f[k]]

FullEntries ==
    {Frame(<<s, r, t>>, r, t, a, b, c, g, n) :
        s \in 1..MaxSub, r \in 1..2, t \in 1..3,
        a \in RssiSet, b \in RssiSet, c \in RssiSet, g \in AgcSet, n \in NoiseSet}

PartialEntries ==
    {Without(Frame(<<1, 1, 1>>, 1, 1, 10, 0, -10, 38, n), K) :
        n \in NoiseSet, K \in (SUBSET Required) \ {{}}}

EntrySet == FullEntries \cup PartialEntries

NoEntry == [k \in {} |-> 0]

\* A frame of a trace as the reader hands it to get_CSI: the raw frame and
\* its scaled CSI.
Parsed(f) ==
    [k \in (DOMAIN f) \cup {"scaled_csi"} |->
        IF k = "scaled_csi" THEN scale_csi_entry(f).ret ELSE f[k]]

TraceFrames3 ==
    {Parsed(Frame(<<s, r, t>>, r, t, 10, 0, -10, 38, -92)) :
        s \in 1..MaxSub, r \in 1..2, t \in 1..2}

TraceFrames1 ==
    {Parsed(Frame(<<s>>, 1, 1, 10, 0, -10, 38, -92)) : s \in 1..MaxSub}

\* Non-empty traces whose frames all have tensors of the same rank.
TraceSet ==
    UNION {[1..n -> TraceFrames3] \cup [1..n -> TraceFrames1] : n \in 1..MaxFrames}

(***************************************************************************)
(* The state machine: one call per run, on inputs drawn at the start.      *)
(***************************************************************************)
NoRes == [op |-> "none", kind |-> "none", exc |-> "", msg |-> "",
          val |-> DbInt(0), calls |-> <<>>]

NoArgs == [metric |-> "", antenna_stream |-> None]

NoRet == [kind |-> "none", exc |-> "", csi |-> NoMatrix,
          no_frames |-> 0, no_subcarriers |-> 0]

Idle ==
    /\ res = NoRes
    /\ pc = "idle"
    /\ args = NoArgs
    /\ antenna_stream = None
    /\ no_frames = 0
    /\ no_subcarriers = 0
    /\ x = 0
    /\ y = 0
    /\ csi = NoMatrix
    /\ ret = NoRet

Init ==
    /\ \/ entry \in EntrySet /\ trace = <<>>
       \/ entry = NoEntry /\ trace \in TraceSet
    /\ Idle

get_CSI_vars == <<pc, args, antenna_stream, no_frames, no_subcarriers, x, y, csi, ret>>

Called(op, out) ==
    [op |-> op, kind |-> out.kind, exc |-> out.exc, msg |-> out.msg,
     val |-> out.val, calls |-> out.calls]

\* get_total_rss(entry["rssi_a"], entry["rssi_b"], entry["rssi_c"], entry["agc"])
CallGetTotalRss ==
    /\ pc = "idle" /\ res = NoRes
    /\ {"rssi_a", "rssi_b", "rssi_c", "agc"} \subseteq DOMAIN entry
    /\ res' = Called("get_total_rss",
                     Return(get_total_rss(entry.rssi_a, entry.rssi_b,
                                          entry.rssi_c, entry.agc), <<>>))
    /\ UNCHANGED <<entry, trace, get_CSI_vars>>

\* get_snr(entry)
CallGetSnr ==
    /\ pc = "idle" /\ res = NoRes
    /\ res' = Called("get_snr", get_snr(entry))
    /\ UNCHANGED <<entry, trace, get_CSI_vars>>

\* The first key of the frame that scale_csi_entry reads and the dict lacks.
MissingKey(f) ==
    LET order == <<"csi", "n_rx", "n_tx", "rssi_a", "rssi_b", "rssi_c", "agc", "noise">>
        miss == {i \in 1..Len(order) : order[i] \notin DOMAIN f}
    IN IF miss = {} THEN ""
       ELSE order[CHOOSE i \in miss : \A j \in miss : i <= j]

\* scale_csi_entry(entry)
CallScaleCsiEntry ==
    /\ pc = "idle" /\ res = NoRes
    /\ res' = IF MissingKey(entry) # ""
              THEN Called("scale_csi_entry", Raise("KeyError", MissingKey(entry), <<>>))
              ELSE Called("scale_csi_entry", Return(scale_csi_entry(entry), <<>>))
    /\ UNCHANGED <<entry, trace, get_CSI_vars>>

\* get_CSI(trace, m, s): lines 9-21, up to the first loop test.
CallGetCSI(m, s) ==
    /\ pc = "idle" /\ res = NoRes
    /\ args' = [metric |-> m, antenna_stream |-> s]
    /\ IF trace = <<>>
       THEN /\ pc' = "failed"
            /\ ret' = [NoRet EXCEPT !.kind = "raise", !.exc = "IndexError"]
            /\ antenna_stream' = s
            /\ UNCHANGED <<no_frames, no_subcarriers, csi>>
       ELSE LET loc == get_CSI_setup(trace, s)
            IN /\ pc' = "loop"
               /\ no_frames' = loc.no_frames
               /\ no_subcarriers' = loc.no_subcarriers
               /\ antenna_stream' = loc.antenna_stream
               /\ csi' = loc.csi
               /\ ret' = ret
    /\ UNCHANGED <<entry, res, trace, x, y>>

\* One pass through the body of the loops, for the cell (x, y).
Cell ==
    /\ pc = "loop" /\ x < no_frames
    /\ LET out == get_CSI_cell(trace, csi, args.metric, antenna_stream, x, y)
       IN /\ trace' = out.trace
          /\ IF out.kind = "store"
             THEN /\ csi' = out.csi
                  /\ IF y + 1 < no_subcarriers
                     THEN y' = y + 1 /\ x' = x
                     ELSE y' = 0 /\ x' = x + 1
                  /\ UNCHANGED <<pc, ret>>
             ELSE /\ pc' = "failed"
                  /\ ret' = [NoRet EXCEPT !.kind = out.kind, !.exc = out.exc]
                  /\ UNCHANGED <<csi, x, y>>
    /\ UNCHANGED <<entry, res, args, antenna_stream, no_frames, no_subcarriers>>

\* Line 39: return (csi, no_frames, no_subcarriers)
ReturnCSI ==
    /\ pc = "loop" /\ x >= no_frames
    /\ pc' = "done"
    /\ ret' = [kind |-> "tuple", exc |-> "", csi |-> csi,
               no_frames |-> no_frames, no_subcarriers |-> no_subcarriers]
    /\ UNCHANGED <<entry, res, trace, args, antenna_stream, no_frames,
                   no_subcarriers, x, y, csi>>

Next ==
    \/ CallGetTotalRss
    \/ CallGetSnr
    \/ CallScaleCsiEntry
    \/ \E m \in {"amplitude", "phasediff"}, s \in {None, 0, 1} : CallGetCSI(m, s)
    \/ Cell
    \/ ReturnCSI

Spec == Init /\ [][Next]_vars

(***************************************************************************)
(* Properties.                                                             *)
(***************************************************************************)
HasAll(e) == Required \subseteq DOMAIN e
Scaled == res.op = "scale_csi_entry" /\ res.kind = "ok"

RECURSIVE LinSum(_)
LinSum(seq) ==
    IF seq = <<>> THEN LinZero
    ELSE LinAdd(dbinv(DbInt(Head(seq))), LinSum(Tail(seq)))

NonZero(r) == r # 0

\* Every sum scale_csi_entry forms on the inputs of the model is exact.
SumsExact ==
    Scaled =>
        /\ Aligned(res.val.thermal_noise_pwr.fin, res.val.quant_error_pwr.fin)
        /\ Aligned(res.val.thermal_noise_pwr.eps, res.val.quant_error_pwr.eps)

\* C1: get_total_rss returns db(S, "pow") - 44 - agc, S being the sum of
\* dbinv(r) over the nonzero ones among its three RSSI inputs; a zero input
\* adds nothing to S.
C1_TotalRss ==
    res.op = "get_total_rss" =>
        LET S == LinSum(SelectSeq(<<entry.rssi_a, entry.rssi_b, entry.rssi_c>>, NonZero))
        IN res.val = DbSub(db(S, "pow"), 44 + entry.agc)

C1_Witness ==
    /\ res.op = "get_total_rss"
    /\ entry.rssi_a # 0 /\ entry.rssi_b = 0 /\ entry.rssi_c # 0

SingleRx(f) == Len(f.csi.shape) = 3 /\ f.csi.shape[2] = 1 /\ f.n_rx = 1

\* C3 as stated: phasediff on a trace whose frames all have one receive
\* antenna fails with an UndefinedOperationError, never with a false value.
C3_Original ==
    (/\ pc \in {"done", "failed"}
     /\ args.metric = "phasediff"
     /\ trace # <<>>
     /\ \A i \in 1..Len(trace) : SingleRx(trace[i])) =>
        /\ pc = "failed"
        /\ ret.kind = "raise"
        /\ ret.exc = "UndefinedOperationError"

\* C4: the thermal noise power is dbinv(-92) for noise = -127 and
\* dbinv(noise) otherwise, and a frame with noise = -127 scales to the same
\* tensor as the same frame with noise = -92.
C4_NoiseSentinel ==
    Scaled =>
        /\ res.val.thermal_noise_pwr =
              IF entry.noise = -127 THEN dbinv(DbInt(-92)) ELSE dbinv(DbInt(entry.noise))
        /\ entry.noise = -127 =>
              res.val.ret = scale_csi_entry([entry EXCEPT !.noise = -92]).ret

C4_Witness == Scaled /\ entry.noise = -127

\* The tensor t with every element multiplied by sqrt(q).
TimesSqrt(t, q) ==
    [t EXCEPT !.data = [i \in DOMAIN @ |-> [@[i] EXCEPT !.k = RatioMulQ(@, q)]]]

\* C5 as stated: the result for n_tx = 2 is the result for the same frame
\* with n_tx = 1, times sqrt(2) elementwise.
C5_Original ==
    (Scaled /\ entry.n_tx = 2) =>
        res.val.ret = TimesSqrt(scale_csi_entry([entry EXCEPT !.n_tx = 1]).ret, QInt(2))

\* C5 as amended: with scale and thermal_noise_pwr those of the same frame
\* with n_tx = 1, the result for n_tx = 2 is
\* csi * sqrt(2 * scale / (thermal_noise_pwr + 2 * n_rx * scale)):
\* the quantization error power doubles with n_tx too.
C5_Amended ==
    (Scaled /\ entry.n_tx = 2) =>
        LET one == scale_csi_entry([entry EXCEPT !.n_tx = 1])
            k2 == Ratio(LinMulQ(one.scale, QInt(2)),
                        LinAdd(one.thermal_noise_pwr,
                               LinMulQ(one.scale, QInt(2 * entry.n_rx))))
        IN res.val.ret = TensorTimesSqrt(entry.csi, k2)

C5_Witness == Scaled /\ entry.n_tx = 2 /\ entry.n_rx = 2

\* C6: on an entry with all five fields get_snr returns get_total_rss(...)
\* minus the entry's noise as it is: noise = -127 gives 35 dB more than
\* noise = -92.
C6_SnrRawNoise ==
    (res.op = "get_snr" /\ HasAll(entry)) =>
        /\ res.kind = "ok"
        /\ res.val = DbSub(get_total_rss(entry.rssi_a, entry.rssi_b,
                                         entry.rssi_c, entry.agc), entry.noise)
        /\ res.calls = <<"get_total_rss", "subtract">>
        /\ entry.noise = -127 =>
              res.val = DbAdd(get_snr([entry EXCEPT !.noise = -92]).val, 35)

C6_Witness == res.op = "get_snr" /\ HasAll(entry) /\ entry.noise = -127

C8_Shape ==
    pc = "done" =>
        /\ ret.kind = "tuple"
        /\ ret.csi.shape = <<ret.no_subcarriers, ret.no_frames>>
        /\ DOMAIN ret.csi.data =
              {<<r, c>> : r \in 0..(ret.no_subcarriers - 1), c \in 0..(ret.no_frames - 1)}
        /\ ret.no_frames = Len(trace)
        /\ ret.no_subcarriers = trace[1].csi.shape[1]

C8_Witness ==
    pc = "done" /\ Len(trace) = 2 /\ trace[1].csi.shape[1] = 2
    /\ trace[1].csi.shape # trace[2].csi.shape

\* 20*log10 of the magnitude of a scaled element.
AmplitudeDb(z) == DbPow(LinMulQ(z.k.num, QInt(z.re * z.re + z.im * z.im)))

\* C9: for amplitude on 3-D tensors every cell [y, x] is
\* db(|scaled_csi_x[y][s][s]|), s the stream passed or 0 when none was; on
\* 1-D tensors with no stream passed it is db(|scaled_csi_x[y]|).
C9_Amplitude ==
    (pc = "done" /\ args.metric = "amplitude") =>
        \A i \in DOMAIN ret.csi.data :
            LET yy == i[1]
                xx == i[2]
                t == trace[xx + 1].scaled_csi
                s == IF args.antenna_stream = None THEN 0 ELSE args.antenna_stream
            IN IF Len(trace[1].csi.shape) = 3
               THEN /\ <<yy, s, s>> \in DOMAIN t.data
                    /\ ret.csi.data[i] = DbCell(AmplitudeDb(t.data[<<yy, s, s>>]))
               ELSE /\ args.antenna_stream = None
                    /\ <<yy>> \in DOMAIN t.data
                    /\ ret.csi.data[i] = DbCell(AmplitudeDb(t.data[<<yy>>]))

C9_Witness ==
    /\ pc = "done" /\ args.metric = "amplitude" /\ args.antenna_stream = 1
    /\ Len(trace) = 2

\* C10: no step of get_CSI changes the trace, and a call that fails hands
\* its caller no matrix.
C10_TraceUntouched ==
    [][/\ trace' = trace
       /\ pc' = "failed" => (ret'.kind \in {"False", "raise"} /\ ret'.csi = NoMatrix)]_vars

C10_Witness ==
    pc = "failed" /\ args.metric = "phasediff" /\ x >= 1 /\ ret.kind = "False"

====
